---- MODULE Spec2Model ----
(***************************************************************************)
(* Model of the dddpy decorators: the value-object decorator of            *)
(* dddpy.business.domain_model.value_object, the entity and aggregate      *)
(* decorators of dddpy.business.domain_model, the Conditioner descriptor,  *)
(* and the legacy ValueObject decorator of dddpy.value_object.             *)
(*                                                                         *)
(* Python values are records [t |-> type name, v |-> number]; classes,     *)
(* decorator objects and instances are records; an operation's outcome is  *)
(* either Return(value) or Raise(exception type, message tokens).          *)
(***************************************************************************)
EXTENDS Integers, Sequences, FiniteSets, TLC

VARIABLES
    _value_objects,  \* ValueObjectDecorator._value_objects (class registry)
    vo,              \* the value-object decorator object made last, or None
    vo_inst,         \* the instance obtained last from vo, or None
    ent,             \* the object returned last by the entity decorator
    next_oid,        \* identity given to the next decorator object
    a, b,            \* two instances made through dddpy.value_object.ValueObject
    cond,            \* a Conditioner descriptor
    cond_dict,       \* __dict__ of an instance of the class that holds cond
    last             \* the operation performed last and its outcome

vars == <<_value_objects, vo, vo_inst, ent, next_oid,
          a, b, cond, cond_dict, last>>
domain_vars == <<_value_objects, vo, vo_inst, ent, next_oid>>
legacy_vars == <<a, b>>
cond_vars == <<cond, cond_dict>>

\* ------------------------------------------------------------------ bounds
MaxInt == 2          \* integer values are 1..MaxInt
MaxStr == 2          \* string values are "s1".."sMaxStr", by index
MaxObjects == 2      \* decorator objects created in one run
MaxConds == 2        \* predicates registered in one list of a Conditioner

\* ----------------------------------------------------------- Python values
None == [t |-> "NoneType", v |-> 0]
PyInt(n) == [t |-> "int", v |-> n]
PyStr(n) == [t |-> "str", v |-> n]
Ints == {PyInt(n) : n \in 1..MaxInt}
Strs == {PyStr(n) : n \in 1..MaxStr}
Values == Ints \cup Strs \cup {None}

NoObject == [kind |-> "None"]

Return(value) == [kind |-> "return", value |-> value]
Raise(exc, msg) == [kind |-> "raise", exc |-> exc, msg |-> msg]

\* ------------------------------------------------ classes given as input
\* A class handed to value_object: its name, what its class attribute `x`
\* is (absent, an int, or a function), whether it defines an
\* __init_subclass__ taking keyword arguments, and whether its fields y, z
\* are declared by annotations or assigned by an explicit initializer.
Fields == <<"y", "z">>
ClassNames == {"MyClass", "Point"}
VOClasses ==
    [name : ClassNames,
     x_attr : {"absent", "int", "function"},
     init_subclass_kwargs : BOOLEAN,
     style : {"annotations", "initializer"},
     setattr : {"object"},
     kw_only : {FALSE}]

\* --------------------------------- business/domain_model/value_object.py
ImmutabilityException(vo_cls, attr) ==
    Raise("ImmutabilityException",
          <<"Cannot modify", vo_cls.name, attr, "value objects are immutable">>)

\* dataclass(frozen=True, slots=True, order=True, kw_only=True)(cls): a new
\* class of the same name whose generated initializer is keyword-only and
\* whose __setattr__ refuses.
dataclass_frozen(cls) == [cls EXCEPT !.setattr = "frozen", !.kw_only = TRUE]

enforce_immutability(cls) == [cls EXCEPT !.setattr = "new_setattr"]

\* Variant of new_setattr that refuses only the names the instance has.
new_setattr_existing_only(inst, name, value) ==
    IF name \in DOMAIN inst.dict
    THEN ImmutabilityException(inst.cls, name)
    ELSE Return([inst EXCEPT !.dict = [k \in DOMAIN inst.dict \cup {name} |->
                                          IF k = name THEN value ELSE inst.dict[k]]])

\* new_setattr of enforce_immutability: raises whatever the name and value.
new_setattr(inst, name, value) == ImmutabilityException(inst.cls, name)

\* ValueObjectDecorator.__new__: type(name, (cls,), {}, metaclass=...) hands
\* the keyword `metaclass` to cls.__init_subclass__.
ValueObjectDecorator_new(decorated_cls) ==
    IF decorated_cls.init_subclass_kwargs
    THEN Return(NoObject)
    ELSE Raise("TypeError",
               <<decorated_cls.name, "__init_subclass__() takes no keyword arguments">>)

\* Variant of ValueObjectDecorator.__init__ that puts the class at the
\* front of the registry.
ValueObjectDecorator_init_prepends(wrapped_cls, registry, oid) ==
    LET decorated_cls == enforce_immutability(dataclass_frozen(wrapped_cls))
    IN [outcome |-> Return([kind |-> "ValueObjectDecorator", oid |-> oid,
                            decorated_cls |-> decorated_cls,
                            wrapped_name |-> wrapped_cls.name]),
        registry |-> <<decorated_cls.name>> \o registry]

\* ValueObjectDecorator.__init__: the decorator object and the registry
\* after the append.
ValueObjectDecorator_init(wrapped_cls, registry, oid) ==
    LET decorated_cls == enforce_immutability(dataclass_frozen(wrapped_cls))
    IN [outcome |-> Return([kind |-> "ValueObjectDecorator", oid |-> oid,
                            decorated_cls |-> decorated_cls,
                            wrapped_name |-> wrapped_cls.name]),
        registry |-> Append(registry, decorated_cls.name)]

ValueObjectDecorator(wrapped_cls, registry, oid) ==
    LET made == ValueObjectDecorator_new(wrapped_cls)
    IN IF made.kind = "raise"
       THEN [outcome |-> made, registry |-> registry]
       ELSE ValueObjectDecorator_init(wrapped_cls, registry, oid)

\* The first two statements of value_object(cls):
\*   cls.x.__annotations__ = {'x': str};  cls.x = 'c'
value_object_prologue(cls) ==
    IF cls = NoObject
    THEN Raise("AttributeError", <<"NoneType", "object has no attribute", "x">>)
    ELSE IF cls.x_attr = "absent"
    THEN Raise("AttributeError", <<cls.name, "type object has no attribute", "x">>)
    ELSE IF cls.x_attr = "int"
    THEN Raise("AttributeError", <<"int", "object has no attribute", "__annotations__">>)
    ELSE Return([cls EXCEPT !.x_attr = "str"])

\* value_object(cls): cls is a class, or NoObject for the call without
\* argument.  Gives the outcome and the registry afterwards.
value_object(cls, registry, oid) ==
    LET pro == value_object_prologue(cls)
    IN IF pro.kind = "raise"
       THEN [outcome |-> pro, registry |-> registry]
       ELSE IF cls = NoObject
       THEN [outcome |-> Return([kind |-> "function", oid |-> oid]),
             registry |-> registry]
       ELSE ValueObjectDecorator(pro.value, registry, oid)

\* `@value_object` is value_object(cls); `@value_object()` is
\* value_object()(cls), whose first call must return before cls is applied.
value_object_bare(cls, registry, oid) == value_object(cls, registry, oid)

value_object_called(cls, registry, oid) ==
    LET first == value_object(NoObject, registry, oid)
    IN IF first.outcome.kind = "raise"
       THEN first
       ELSE ValueObjectDecorator(cls, registry, oid)

\* Assignment inst.name = value through type(inst).__setattr__.
setattr(inst, name, value) ==
    IF inst.cls.setattr = "new_setattr"
    THEN new_setattr(inst, name, value)
    ELSE IF inst.cls.setattr = "frozen"
    THEN Raise("FrozenInstanceError", <<"cannot assign to field", name>>)
    ELSE Return([inst EXCEPT !.dict = [k \in DOMAIN inst.dict \cup {name} |->
                                          IF k = name THEN value ELSE inst.dict[k]]])

EmptyDict == [k \in {} |-> None]

\* The explicit initializer `self.y = y; self.z = z`, one assignment after
\* the other through setattr; the first failure ends it.
RECURSIVE user_init(_, _, _)
user_init(inst, args, i) ==
    IF i > Len(Fields)
    THEN Return(inst)
    ELSE LET r == setattr(inst, Fields[i], args[i])
         IN IF r.kind = "raise" THEN r ELSE user_init(r.value, args, i + 1)

\* The initializer generated by dataclass for a frozen class: keyword-only
\* under kw_only, and it stores with object.__setattr__.
dataclass_init(cls, form, args) ==
    IF cls.kw_only /\ form = "positional"
    THEN Raise("TypeError", <<cls.name, "__init__() takes 1 positional argument">>)
    ELSE Return([cls |-> cls, dict |-> [k \in {Fields[i] : i \in 1..Len(Fields)} |->
                    args[CHOOSE i \in 1..Len(Fields) : Fields[i] = k]]])

\* ValueObjectDecorator.__call__: self.decorated_cls(*args, **kwargs)
ValueObjectDecorator_call(self, form, args) ==
    IF self.decorated_cls.style = "annotations"
    THEN dataclass_init(self.decorated_cls, form, args)
    ELSE user_init([cls |-> self.decorated_cls, dict |-> EmptyDict], args, 1)

\* get_value_objects()
get_value_objects(registry) == registry

\* ----------------------------------------- business/domain_model/entity.py
\* A class handed to the entity decorator: its name and the attribute its
\* initializer `__init__(self, id)` assigns its argument to ("none": the
\* initializer assigns nothing).  `enforced` says whether __init__ has been
\* replaced by new_init.
EntityNames == {"User"}
IdAttrs == {"id"}
EntityClasses ==
    [name : EntityNames, sets : IdAttrs \cup {"none"}, enforced : {FALSE}]

NoEntityIDException(cls) ==
    Raise("NoEntityIDException", <<"Entity", cls.name, "must have a unique ID">>)

\* _Entity.__init__
Entity(cls, id_attr, oid) ==
    [kind |-> "_Entity", oid |-> oid, cls |-> cls, id_attr |-> id_attr]

\* entity(unique_id_attr)(cls): functools.wraps leaves the _Entity as it is
\* apart from copied metadata.
entity(unique_id_attr, cls, oid) == Entity(cls, unique_id_attr, oid)

\* entity applied bare, `@entity` on the class: entity(cls) binds the class
\* to unique_id_attr and returns the inner function `decorator`.
entity_bare(cls, oid) == [kind |-> "function", oid |-> oid]

\* The class's own initializer.
orig_init(cls, arg) ==
    [cls |-> cls,
     dict |-> IF cls.sets = "none" THEN EmptyDict
              ELSE [k \in {cls.sets} |-> arg]]

\* new_init of _enforce_unique_id
new_init(self, arg) ==
    LET inst == orig_init(self.cls, arg)
    IN IF self.id_attr \notin DOMAIN inst.dict
       THEN Raise("AttributeError",
                  <<self.cls.name, "object has no attribute", self.id_attr>>)
       ELSE IF inst.dict[self.id_attr] = None
       THEN NoEntityIDException(self.cls)
       ELSE Return(inst)

\* _Entity._enforce_unique_id: replaces the class's initializer.
Entity_enforce_unique_id(self) == [self EXCEPT !.cls.enforced = TRUE]

\* Variant of _Entity.__call__ that calls self.cls without the arguments.
Entity_call_without_args(self, arg) == Return(orig_init(self.cls, None))

\* _Entity.__call__: self.cls(*args, **kwargs)
Entity_call(self, arg) ==
    IF self.cls.enforced
    THEN new_init(self, arg)
    ELSE Return(orig_init(self.cls, arg))

\* -------------------------------------- business/domain_model/aggregate.py
\* Variant of _validate_root_is_entity that also lets value objects pass.
Aggregate_validate_root_is_domain_object(cls) ==
    IF ~(cls.kind = "_Entity" \/ cls.kind = "ValueObjectDecorator")
    THEN Raise("TypeError", <<"Aggregate roots must be entities">>)
    ELSE Return(NoObject)

Aggregate_validate_root_is_entity(cls) ==
    IF cls.kind # "_Entity"
    THEN Raise("TypeError", <<"Aggregate roots must be entities">>)
    ELSE Return(NoObject)

\* Variant of _validate_entity_or_vo with `and` for `or`.
Aggregate_validate_entity_and_vo(cls) ==
    IF ~(cls.kind = "ValueObjectDecorator" /\ cls.kind = "_Entity")
    THEN Raise("TypeError",
               <<"Aggregates must only include entities and value objects">>)
    ELSE Return(NoObject)

Aggregate_validate_entity_or_vo(cls) ==
    IF ~(cls.kind = "ValueObjectDecorator" \/ cls.kind = "_Entity")
    THEN Raise("TypeError",
               <<"Aggregates must only include entities and value objects">>)
    ELSE Return(NoObject)

\* Aggregate.__call__ of the decorator Aggregate(root)
Aggregate_call(root, cls) ==
    LET first == Aggregate_validate_entity_or_vo(cls)
        second == Aggregate_validate_root_is_entity(cls)
    IN IF first.kind = "raise" THEN first
       ELSE IF root /\ second.kind = "raise" THEN second
       ELSE Return(cls)

\* Objects that are neither entity nor value object: a string and an
\* undecorated class.
OtherObjects == {[kind |-> "str", oid |-> 0], [kind |-> "type", oid |-> 0]}

\* ---------------------------------------------------- dddpy/value_object.py
\* The legacy decorator ValueObject.  Its classes have the fields x, y, set
\* in this order by the initializer (written out, or generated by
\* dataclass(cls)); an instance's __dict__ is the sequence of its
\* <<name, value>> items in insertion order.
LegacyFields == <<"x", "y">>
LegacyNames == {"MyClass", "Point"}

keys(inst) == {inst.items[i][1] : i \in 1..Len(inst.items)}
values(inst) == [i \in 1..Len(inst.items) |-> inst.items[i][2]]
hasattr(inst, name) == name \in keys(inst)

\* Variant of the legacy new_setattr without the hasattr test: it stores
\* whatever the name.
ValueObject_new_setattr_unchecked(instance, name, value) ==
    IF hasattr(instance, name)
    THEN Return([instance EXCEPT !.items =
                    [i \in 1..Len(@) |-> IF @[i][1] = name
                                         THEN <<name, value>> ELSE @[i]]])
    ELSE Return([instance EXCEPT !.items = Append(@, <<name, value>>)])

\* new_setattr of ValueObject.enforce_immutability
ValueObject_new_setattr(instance, name, value) ==
    IF hasattr(instance, name)
    THEN Raise("AttributeError",
               <<"Cannot modify", name, "value objects are immutable">>)
    ELSE Return([instance EXCEPT !.items = Append(@, <<name, value>>)])

\* The initializer: self.x = x; self.y = y through new_setattr.
RECURSIVE ValueObject_cls_init(_, _, _)
ValueObject_cls_init(instance, args, i) ==
    IF i > Len(LegacyFields)
    THEN Return(instance)
    ELSE LET r == ValueObject_new_setattr(instance, LegacyFields[i], args[i])
         IN IF r.kind = "raise" THEN r
            ELSE ValueObject_cls_init(r.value, args, i + 1)

\* ValueObject.__call__: self.cls(*args, **kwargs)
ValueObject_call(cls_name, args) ==
    ValueObject_cls_init([cls |-> cls_name, items |-> <<>>], args, 1)

\* u < v of Python, where it is defined: ints among ints, strs among strs.
Orderable(u, v) == u.t = v.t /\ u.t # "NoneType"
Less(u, v) == u.v < v.v

\* sorted(): insertion into an ascending sequence.
RECURSIVE insert(_, _)
insert(v, seq) ==
    IF seq = <<>> THEN <<v>>
    ELSE IF Less(v, Head(seq)) THEN <<v>> \o seq
    ELSE <<Head(seq)>> \o insert(v, Tail(seq))

RECURSIVE insertion_sort(_)
insertion_sort(seq) ==
    IF seq = <<>> THEN <<>> ELSE insert(Head(seq), insertion_sort(Tail(seq)))

\* sorted(values): TypeError as soon as two of the values cannot be ordered.
sorted(seq) ==
    IF \E i, j \in 1..Len(seq) : i # j /\ ~Orderable(seq[i], seq[j])
    THEN Raise("TypeError", <<"'<' not supported between instances">>)
    ELSE Return(insertion_sort(seq))

\* eq of ValueObject.override_equality_methods
eq(inst, other) ==
    IF inst.cls # other.cls
    THEN Return(FALSE)
    ELSE LET inst_values == sorted(values(inst))
             other_values == sorted(values(other))
         IN IF inst_values.kind = "raise" THEN inst_values
            ELSE IF other_values.kind = "raise" THEN other_values
            ELSE Return(inst_values.value = other_values.value)

\* __hash__ of override_equality_methods: hash(tuple(x.__dict__.values())).
\* The hash of a tuple is represented by the tuple: two hashes are equal
\* exactly when the tuples are.
hash(x) == values(x)

\* ------------------------------------------------------------- Conditioner
\* Predicates registered as conditions, by name, and what each returns: a
\* boolean, or a (boolean, message) pair.
Predicates == {"positive", "is_even", "never"}
Apply(func, value) ==
    IF func = "positive" THEN [ok |-> value.v > 0, msg |-> "must be positive"]
    ELSE IF func = "is_even" THEN [ok |-> value.v % 2 = 0, msg |-> "must be even"]
    ELSE [ok |-> FALSE, msg |-> ""]

\* Conditioner.__init__
Conditioner(name) ==
    [name |-> name, preconditions |-> <<>>, postconditions |-> <<>>]

Conditioner_precondition(self, func) ==
    [self EXCEPT !.preconditions = Append(@, func)]

Conditioner_postcondition(self, func) ==
    [self EXCEPT !.postconditions = Append(@, func)]

Conditioner_condition(self, func) ==
    Conditioner_postcondition(Conditioner_precondition(self, func), func)

\* Conditioner.__set__: instance.__dict__[self.name] = value
Conditioner_set(self, dict, value) ==
    [k \in DOMAIN dict \cup {self.name} |->
        IF k = self.name THEN value ELSE dict[k]]

\* Conditioner.__get__: instance.__dict__[self.name]
Conditioner_get(self, dict) ==
    IF self.name \in DOMAIN dict
    THEN Return(dict[self.name])
    ELSE Raise("KeyError", <<self.name>>)

\* ------------------------------------------------------------ the machine
Init ==
    /\ _value_objects = <<>>
    /\ vo = NoObject
    /\ vo_inst = NoObject
    /\ ent = NoObject
    /\ next_oid = 1
    /\ a = NoObject
    /\ b = NoObject
    /\ cond = Conditioner("x")
    /\ cond_dict = EmptyDict
    /\ last = [op |-> "none"]

\* @value_object / @value_object() on a class
DecorateValueObject(cls, form) ==
    /\ next_oid <= MaxObjects
    /\ LET r == IF form = "bare"
                THEN value_object_bare(cls, _value_objects, next_oid)
                ELSE value_object_called(cls, _value_objects, next_oid)
           ok == r.outcome.kind = "return"
       IN /\ _value_objects' = r.registry
          /\ vo' = IF ok THEN r.outcome.value ELSE vo
          /\ next_oid' = IF ok THEN next_oid + 1 ELSE next_oid
          /\ last' = [op |-> "value_object", form |-> form, cls |-> cls,
                      outcome |-> r.outcome]
    /\ UNCHANGED <<vo_inst, ent, legacy_vars, cond_vars>>

\* vo(...) : instantiation through the decorator object
ConstructValueObject(form, args) ==
    /\ vo # NoObject
    /\ LET r == ValueObjectDecorator_call(vo, form, args)
       IN /\ vo_inst' = IF r.kind = "return" THEN r.value ELSE vo_inst
          /\ last' = [op |-> "vo_construct", form |-> form, args |-> args,
                      cls |-> vo.decorated_cls, outcome |-> r]
    /\ UNCHANGED <<_value_objects, vo, ent, next_oid, legacy_vars, cond_vars>>

\* vo_inst.name = value
AssignValueObject(name, value) ==
    /\ vo_inst # NoObject
    /\ LET r == setattr(vo_inst, name, value)
       IN /\ vo_inst' = IF r.kind = "return" THEN r.value ELSE vo_inst
          /\ last' = [op |-> "vo_setattr", inst |-> vo_inst, name |-> name,
                      value |-> value, outcome |-> r]
    /\ UNCHANGED <<_value_objects, vo, ent, next_oid, legacy_vars, cond_vars>>

\* @entity(unique_id_attr) on a class
DecorateEntity(cls, unique_id_attr) ==
    /\ next_oid <= MaxObjects
    /\ ent' = entity(unique_id_attr, cls, next_oid)
    /\ next_oid' = next_oid + 1
    /\ last' = [op |-> "entity", cls |-> cls, outcome |-> Return(ent')]
    /\ UNCHANGED <<_value_objects, vo, vo_inst, legacy_vars, cond_vars>>

\* @entity on a class, without the identity attribute name
DecorateEntityBare(cls) ==
    /\ next_oid <= MaxObjects
    /\ ent' = entity_bare(cls, next_oid)
    /\ next_oid' = next_oid + 1
    /\ last' = [op |-> "entity_bare", cls |-> cls, outcome |-> Return(ent')]
    /\ UNCHANGED <<_value_objects, vo, vo_inst, legacy_vars, cond_vars>>

\* ent(arg): instantiation through the _Entity wrapper; the instance is the
\* outcome, the wrapper keeps no reference to it.
ConstructEntity(arg) ==
    /\ ent.kind = "_Entity"
    /\ last' = [op |-> "entity_call", self |-> ent, arg |-> arg,
                outcome |-> Entity_call(ent, arg)]
    /\ UNCHANGED <<domain_vars, legacy_vars, cond_vars>>

\* Aggregate(root)(obj)
ApplyAggregate(root, obj) ==
    /\ obj # NoObject
    /\ last' = [op |-> "aggregate", root |-> root, obj |-> obj,
                outcome |-> Aggregate_call(root, obj)]
    /\ UNCHANGED <<domain_vars, legacy_vars, cond_vars>>

\* ValueObject-decorated class called with two arguments; the instance goes
\* to slot a or b.
ConstructLegacy(slot, cls_name, args) ==
    /\ LET r == ValueObject_call(cls_name, args)
       IN /\ a' = IF slot = "a" /\ r.kind = "return" THEN r.value ELSE a
          /\ b' = IF slot = "b" /\ r.kind = "return" THEN r.value ELSE b
          /\ last' = [op |-> "legacy_construct", cls |-> cls_name,
                      args |-> args, outcome |-> r]
    /\ UNCHANGED <<domain_vars, cond_vars>>

\* a.name = value after construction
AssignLegacy(name, value) ==
    /\ a # NoObject
    /\ LET r == ValueObject_new_setattr(a, name, value)
       IN /\ a' = IF r.kind = "return" THEN r.value ELSE a
          /\ last' = [op |-> "legacy_setattr", inst |-> a, name |-> name,
                      value |-> value, outcome |-> r]
    /\ UNCHANGED <<domain_vars, b, cond_vars>>

\* a == b, hash(a), hash(b)
CompareLegacy ==
    /\ a # NoObject
    /\ b # NoObject
    /\ last' = [op |-> "legacy_eq", inst |-> a, other |-> b,
                outcome |-> eq(a, b),
                hash_inst |-> hash(a), hash_other |-> hash(b)]
    /\ UNCHANGED <<domain_vars, legacy_vars, cond_vars>>

\* cond.precondition(func), cond.postcondition(func), cond.condition(func)
RegisterPrecondition(func) ==
    /\ Len(cond.preconditions) < MaxConds
    /\ cond' = Conditioner_precondition(cond, func)
    /\ last' = [op |-> "precondition", func |-> func]
    /\ UNCHANGED <<domain_vars, legacy_vars, cond_dict>>

RegisterPostcondition(func) ==
    /\ Len(cond.postconditions) < MaxConds
    /\ cond' = Conditioner_postcondition(cond, func)
    /\ last' = [op |-> "postcondition", func |-> func]
    /\ UNCHANGED <<domain_vars, legacy_vars, cond_dict>>

RegisterCondition(func) ==
    /\ Len(cond.preconditions) < MaxConds
    /\ Len(cond.postconditions) < MaxConds
    /\ cond' = Conditioner_condition(cond, func)
    /\ last' = [op |-> "condition", func |-> func]
    /\ UNCHANGED <<domain_vars, legacy_vars, cond_dict>>

\* instance.x = value, through the descriptor
AssignConditioned(value) ==
    /\ cond_dict' = Conditioner_set(cond, cond_dict, value)
    /\ last' = [op |-> "cond_set", value |-> value, before |-> cond_dict,
                outcome |-> Return(NoObject)]
    /\ UNCHANGED <<domain_vars, legacy_vars, cond>>

\* instance.x, through the descriptor
ReadConditioned ==
    /\ last' = [op |-> "cond_get", outcome |-> Conditioner_get(cond, cond_dict)]
    /\ UNCHANGED <<domain_vars, legacy_vars, cond_vars>>

Next ==
    \/ \E cls \in VOClasses, form \in {"bare", "called"} :
          DecorateValueObject(cls, form)
    \/ \E form \in {"positional", "keyword"}, y \in Ints, z \in Ints :
          ConstructValueObject(form, <<y, z>>)
    \/ \E name \in {"y", "w"}, value \in Ints :
          AssignValueObject(name, value)
    \/ \E cls \in EntityClasses, attr \in IdAttrs : DecorateEntity(cls, attr)
    \/ \E cls \in EntityClasses : DecorateEntityBare(cls)
    \/ \E arg \in Strs \cup {None} : ConstructEntity(arg)
    \/ \E root \in BOOLEAN, obj \in {vo, ent} \cup OtherObjects :
          ApplyAggregate(root, obj)

Spec == Init /\ [][Next]_vars

LegacyValues == Ints \cup {None}
AssignedValues == {PyInt(1)}

NextLegacy ==
    \/ \E slot \in {"a", "b"}, cls_name \in LegacyNames,
          x \in LegacyValues, y \in LegacyValues :
          ConstructLegacy(slot, cls_name, <<x, y>>)
    \/ \E name \in {"x", "y", "w"}, value \in AssignedValues :
          AssignLegacy(name, value)
    \/ CompareLegacy

SpecLegacy == Init /\ [][NextLegacy]_vars

NextConditioner ==
    \/ \E func \in Predicates : RegisterPrecondition(func)
    \/ \E func \in Predicates : RegisterPostcondition(func)
    \/ \E func \in Predicates : RegisterCondition(func)
    \/ \E value \in Ints : AssignConditioned(value)
    \/ ReadConditioned

SpecConditioner == Init /\ [][NextConditioner]_vars

C3_NullIdentityRejected ==
    (/\ last.op = "entity_call"
     /\ last.self.cls.sets = last.self.id_attr
     /\ last.arg = None) =>
        last.outcome = NoEntityIDException(last.self.cls)

\* C4: an instantiation through the entity wrapper whose initializer sets
\* the identity attribute to a non-null value succeeds, and the identity
\* attribute of the returned instance is the value supplied.
C4_NonNullIdentityKept ==
    (/\ last.op = "entity_call"
     /\ last.self.cls.sets = last.self.id_attr
     /\ last.arg # None) =>
        /\ last.outcome.kind = "return"
        /\ last.self.id_attr \in DOMAIN last.outcome.value.dict
        /\ last.outcome.value.dict[last.self.id_attr] = last.arg
        /\ last.outcome.value.cls = last.self.cls

C4_Witness ==
    /\ last.op = "entity_call"
    /\ last.self.cls.sets = last.self.id_attr
    /\ last.arg = PyStr(1)
    /\ last.outcome.kind = "return"

C8_ConstructionReadsBack ==
    (/\ last.op = "vo_construct"
     /\ (last.cls.style = "initializer" \/ last.form = "keyword")) =>
        /\ last.outcome.kind = "return"
        /\ \A i \in 1..Len(Fields) :
              /\ Fields[i] \in DOMAIN last.outcome.value.dict
              /\ last.outcome.value.dict[Fields[i]] = last.args[i]

\* C9: for every class, `@value_object` and `@value_object()` have the same
\* outcome: both return a value-object decorator object around the same
\* decorated class, or both raise the same exception type.
OutcomeShape(o) ==
    IF o.kind = "raise"
    THEN [kind |-> "raise", exc |-> o.exc]
    ELSE [kind |-> "return", exc |-> "none"]

C9_BareEqualsCalled ==
    last.op = "value_object" =>
        OutcomeShape(value_object_bare(last.cls, <<>>, 0).outcome)
            = OutcomeShape(value_object_called(last.cls, <<>>, 0).outcome)

\* C2: for two instances of the same legacy value-object class, a == b is
\* true exactly when every field of a equals the same-named field of b.
FieldOf(inst, name) ==
    inst.items[CHOOSE i \in 1..Len(inst.items) : inst.items[i][1] = name][2]

SameFields(inst, other) ==
    /\ keys(inst) = keys(other)
    /\ \A name \in keys(inst) : FieldOf(inst, name) = FieldOf(other, name)

IsTrue(outcome) == outcome.kind = "return" /\ outcome.value

C2_EqualIffFieldsEqual ==
    (/\ last.op = "legacy_eq"
     /\ last.inst.cls = last.other.cls
     /\ keys(last.inst) = keys(last.other)) =>
        (IsTrue(last.outcome) <=> SameFields(last.inst, last.other))

\* C7: for two instances of a legacy value-object class, a == b implies
\* hash(a) == hash(b).
C7_EqualImpliesSameHash ==
    (last.op = "legacy_eq" /\ IsTrue(last.outcome)) =>
        last.hash_inst = last.hash_other

\* C10: when a registered precondition or postcondition returns False for
\* the value assigned, the assignment fails, and a failing precondition
\* keeps the value from being stored.
Fails(conditions, value) ==
    \E i \in 1..Len(conditions) : ~Apply(conditions[i], value).ok

C10_FailingConditionRejects ==
    last.op = "cond_set" =>
        /\ (Fails(cond.preconditions, last.value)
               \/ Fails(cond.postconditions, last.value))
              => last.outcome.kind = "raise"
        /\ Fails(cond.preconditions, last.value) => cond_dict = last.before

\* C11: attributes of a legacy value object are write-once: the initializer's
\* assignments to attributes the instance does not have yet succeed, and a
\* later assignment to an attribute the instance has raises AttributeError
\* "Cannot modify <name>; value objects are immutable" and leaves the
\* instance as it was.
C11_WriteOnce ==
    /\ last.op = "legacy_construct" =>
          /\ last.outcome.kind = "return"
          /\ last.outcome.value.items =
                [i \in 1..Len(LegacyFields) |-> <<LegacyFields[i], last.args[i]>>]
    /\ (last.op = "legacy_setattr" /\ hasattr(last.inst, last.name)) =>
          /\ last.outcome = Raise("AttributeError",
                <<"Cannot modify", last.name, "value objects are immutable">>)
          /\ a = last.inst

C11_Witness ==
    /\ last.op = "legacy_setattr"
    /\ last.name = "x"
    /\ FieldOf(last.inst, "x") = PyInt(2)
    /\ last.value = PyInt(1)
    /\ last.outcome.kind = "raise"
    /\ FieldOf(a, "x") = PyInt(2)

\* C12: an instantiation through the entity wrapper whose initializer never
\* sets the identity attribute fails, and the error names the entity class.
C12_AbsentIdentityRejected ==
    (last.op = "entity_call" /\ last.self.id_attr # last.self.cls.sets) =>
        /\ last.outcome.kind = "raise"
        /\ \E i \in 1..Len(last.outcome.msg) :
              last.outcome.msg[i] = last.self.cls.name

\* C13: once a legacy value object is constructed, every assignment to it
\* fails, to a name it has and to a new name alike, so its __dict__ stays
\* what it was after construction.
C13_EveryAssignmentFails ==
    last.op = "legacy_setattr" =>
        /\ last.outcome.kind = "raise"
        /\ a = last.inst
        /\ hash(a) = hash(last.inst)

\* C14: the registry grows by exactly the decorated class, at its end, when
\* a ValueObjectDecorator initialisation completes, and no other step
\* changes it.
C14_RegistryAppendOnly ==
    [][IF vo' # vo
       THEN get_value_objects(_value_objects') =
                Append(get_value_objects(_value_objects), vo'.decorated_cls.name)
       ELSE get_value_objects(_value_objects') = get_value_objects(_value_objects)]_vars

C14_Witness ==
    /\ get_value_objects(_value_objects) = <<"MyClass", "Point">>
    /\ vo.oid = 2
    /\ vo.decorated_cls.name = "Point"
    /\ last.op = "vo_setattr"

\* C15: the object `@entity` yields when applied bare to a class is accepted
\* by Aggregate() and Aggregate(root=True), which return it unchanged.
C15_BareEntityAccepted ==
    (last.op = "aggregate" /\ last.obj.kind = "function" /\ last.obj = ent) =>
        last.outcome = Return(last.obj)

====
